---- MODULE Spec2Model ----
(***************************************************************************)
(* Model of ais_app.py, the Streamlit script "NOAA AIS Vessel Explorer".   *)
(* One run of the script, top to bottom, with a cold st.cache_data cache.   *)
(*                                                                         *)
(* Text is a sequence of one-character strings, so that Python's string    *)
(* order, str.lower, str.replace, number parsing and timestamp parsing are *)
(* computed character by character.  A table cell is a tagged value:       *)
(* a float (t = "float"), a str (t = "str") or a missing value (NaN/NaT,   *)
(* t = "nan").  Times are kept in ticks of 1/TicksPerSecond second, speeds *)
(* in 1e-6 m/s, accelerations as exact fractions n/d of 1e-6 m/s^2.        *)
(***************************************************************************)
EXTENDS Integers, Sequences, FiniteSets, TLC

\* Largest number of data rows of the CSV file.
MaxRows == 3

\* ------------------------------------------------------------------ text

\* Code point of a character (Python compares str by code point).
Ord(c) ==
  CASE c = " " -> 32 [] c = "#" -> 35 [] c = "." -> 46 [] c = "/" -> 47
    [] c = "0" -> 48 [] c = "1" -> 49 [] c = "2" -> 50 [] c = "3" -> 51
    [] c = "4" -> 52 [] c = "5" -> 53 [] c = "6" -> 54 [] c = "7" -> 55
    [] c = "8" -> 56 [] c = "9" -> 57 [] c = ":" -> 58
    [] c = "A" -> 65 [] c = "B" -> 66 [] c = "C" -> 67 [] c = "N" -> 78
    [] c = "_" -> 95
    [] c = "a" -> 97 [] c = "b" -> 98 [] c = "c" -> 99 [] c = "d" -> 100
    [] c = "n" -> 110

IsDigit(c) == Ord(c) >= 48 /\ Ord(c) <= 57

DigitVal(c) == Ord(c) - 48

DigitChar(n) ==
  CASE n = 0 -> "0" [] n = 1 -> "1" [] n = 2 -> "2" [] n = 3 -> "3"
    [] n = 4 -> "4" [] n = 5 -> "5" [] n = 6 -> "6" [] n = 7 -> "7"
    [] n = 8 -> "8" [] n = 9 -> "9"

\* str.lower on one character.
LowerChar(c) ==
  CASE c = "A" -> "a" [] c = "B" -> "b" [] c = "C" -> "c" [] c = "N" -> "n"
    [] OTHER -> c

\* str.lower()
Lower(s) == [i \in 1..Len(s) |-> LowerChar(s[i])]

\* str.replace(" ", "_")
ReplaceSpace(s) == [i \in 1..Len(s) |-> IF s[i] = " " THEN "_" ELSE s[i]]

\* Python's str < str : lexicographic on code points.
RECURSIVE StrLess(_, _)
StrLess(a, b) ==
  IF b = <<>> THEN FALSE
  ELSE IF a = <<>> THEN TRUE
  ELSE IF Ord(Head(a)) # Ord(Head(b)) THEN Ord(Head(a)) < Ord(Head(b))
  ELSE StrLess(Tail(a), Tail(b))

StrLeq(a, b) == a = b \/ StrLess(a, b)

\* A run of decimal digits read as a number.
RECURSIVE ParseDigits(_)
ParseDigits(s) ==
  IF s = <<>> THEN 0
  ELSE 10 * ParseDigits(SubSeq(s, 1, Len(s) - 1)) + DigitVal(s[Len(s)])

AllDigits(s) == s # <<>> /\ \A i \in 1..Len(s) : IsDigit(s[i])

\* Two-digit zero-padded decimal (%m, %d, %H, %M, %S of strftime).
TwoDigits(n) == <<DigitChar((n \div 10) % 10), DigitChar(n % 10)>>

\* ----------------------------------------------------------------- cells

NaN == [t |-> "nan", n |-> 0, s |-> <<>>]

Num(x) == [t |-> "float", n |-> x, s |-> <<>>]

Str(x) == [t |-> "str", n |-> 0, s |-> x]

\* Python None as returned by st.selectbox over no options.
None == [t |-> "none", n |-> 0, s |-> <<>>]

Abs(x) == IF x < 0 THEN 0 - x ELSE x

RECURSIVE Gcd(_, _)
Gcd(a, b) == IF b = 0 THEN a ELSE Gcd(b, a % b)

\* The fraction x/y in lowest terms with a positive denominator, so that
\* equal values are equal records; y = 0 stands for the float inf.
Rat(x, y) ==
  IF y = 0 THEN [t |-> "float", n |-> x, d |-> 0]
  ELSE LET g == Gcd(Abs(x), Abs(y))
           sg == IF y < 0 THEN 0 - 1 ELSE 1
       IN [t |-> "float", n |-> sg * (x \div g), d |-> sg * (y \div g)]

\* A missing value in a column of fractions.
RatNaN == [t |-> "nan", n |-> 0, d |-> 1]

\* -------------------------------------------------------------- read_csv

\* Cell texts that pandas.read_csv reads as a missing value (default
\* na_values; the ones over this alphabet).
NaValues == { <<>>, <<"N", "/", "A">>, <<"N", "A">>, <<"N", "a", "N">>, <<"n", "a", "n">> }

\* dtype inference of read_csv for one column: float64 when every cell is
\* numeric or missing, object (str cells) otherwise.  A file without data
\* rows gives object columns.
ColumnIsFloat(texts) ==
  /\ Len(texts) > 0
  /\ \A i \in 1..Len(texts) : texts[i] \in NaValues \/ AllDigits(texts[i])

ReadCsvColumn(texts) ==
  [i \in 1..Len(texts) |->
     IF texts[i] \in NaValues THEN NaN
     ELSE IF ColumnIsFloat(texts) THEN Num(ParseDigits(texts[i]))
     ELSE Str(texts[i])]

Column(tbl, name) == [i \in 1..Len(tbl) |-> tbl[i][name]]

\* pd.read_csv(csv_path) followed by df.columns.str.strip()
ReadCsv(tbl) ==
  LET names   == ReadCsvColumn(Column(tbl, "VesselName"))
      times   == ReadCsvColumn(Column(tbl, "BaseDateTime"))
      sogs    == ReadCsvColumn(Column(tbl, "SOG"))
      lengths == ReadCsvColumn(Column(tbl, "Length"))
  IN [i \in 1..Len(tbl) |->
        [VesselName |-> names[i], BaseDateTime |-> times[i],
         SOG |-> sogs[i], Length |-> lengths[i]]]

\* dtype of a column of the loaded frame.
IsObjectColumn(frame, name) ==
  Len(frame) = 0 \/ \E i \in 1..Len(frame) : frame[i][name].t = "str"

\* pd.to_numeric(x, errors='coerce') on one cell.
ToNumeric(c) ==
  IF c.t = "str" THEN (IF AllDigits(c.s) THEN Num(ParseDigits(c.s)) ELSE NaN)
  ELSE c

\* ----------------------------------------------------------- timestamps

\* Resolution of the model's clock: ticks per second.
TicksPerSecond == 10

\* The day the data set covers; timestamps are "6/27/2020 H:MM:SS.f" with
\* a one- or two-digit hour.
DatePrefix == <<"6", "/", "2", "7", "/", "2", "0", "2", "0", " ">>

TimeOfDayTicks(h, m, sec, f) == ((h * 60 + m) * 60 + sec) * TicksPerSecond + f

\* Parse of the time-of-day part, "H:MM:SS.f" or "HH:MM:SS.f".
ParseTimeOfDay(r) ==
  LET hl == Len(r) - 8
  IN IF hl \notin {1, 2} THEN NaN
     ELSE LET hh == SubSeq(r, 1, hl)
              mm == SubSeq(r, hl + 2, hl + 3)
              ss == SubSeq(r, hl + 5, hl + 6)
              ff == SubSeq(r, hl + 8, hl + 8)
          IN IF /\ AllDigits(hh) /\ AllDigits(mm) /\ AllDigits(ss) /\ AllDigits(ff)
                /\ r[hl + 1] = ":" /\ r[hl + 4] = ":" /\ r[hl + 7] = "."
                /\ ParseDigits(hh) < 24 /\ ParseDigits(mm) < 60 /\ ParseDigits(ss) < 60
             THEN Num(TimeOfDayTicks(ParseDigits(hh), ParseDigits(mm),
                                     ParseDigits(ss), ParseDigits(ff)))
             ELSE NaN

\* pd.to_datetime(x, errors='coerce') on one cell: the parsed time, in ticks
\* since the start of the day, or NaT.
ToDatetime(c) ==
  IF c.t # "str" THEN NaN
  ELSE IF Len(c.s) > Len(DatePrefix) /\ SubSeq(c.s, 1, Len(DatePrefix)) = DatePrefix
       THEN ParseTimeOfDay(SubSeq(c.s, Len(DatePrefix) + 1, Len(c.s)))
       ELSE NaN

\* .dt.strftime('%m/%d/%Y %H:%M:%S') on one cell; NaT gives NaN.
Strftime(c) ==
  IF c.t # "float" THEN NaN
  ELSE LET secs == c.n \div TicksPerSecond
       IN Str(<<"0", "6", "/", "2", "7", "/", "2", "0", "2", "0", " ">>
              \o TwoDigits(secs \div 3600) \o <<":">>
              \o TwoDigits((secs \div 60) % 60) \o <<":">>
              \o TwoDigits(secs % 60))

\* ------------------------------------------------------ frame operations

\* A diff that takes the value before the first row to be 0.
DiffFromZero(col, i) ==
  IF i = 1 THEN col[i]
  ELSE IF col[i].t # "float" \/ col[i - 1].t # "float" THEN NaN
  ELSE Num(col[i].n - col[i - 1].n)

\* Series.diff() at position i (1-based): missing in the first row and
\* wherever one of the two operands is missing.
Diff(col, i) ==
  IF i = 1 \/ col[i].t # "float" \/ col[i - 1].t # "float" THEN NaN
  ELSE Num(col[i].n - col[i - 1].n)

\* Series.fillna(v) on one cell.
FillNa(c, v) == IF c.t = "nan" THEN Num(v) ELSE c

\* Series.replace(a, b) on one cell.
Replace(c, a, b) == IF c.t = "float" /\ c.n = a THEN Num(b) ELSE c

\* Knots to metres per second, in units of 1e-6.
KnotsToMps == 514444

\* vessel_df['SOG'] * 0.514444 on one float cell (NaN stays NaN).
SpeedMps(c) == IF c.t = "float" THEN Num(c.n * KnotsToMps) ELSE NaN

\* BaseDateTime.diff().dt.total_seconds().fillna(0) at row i, in ticks.
TimeDelta(times, i) == FillNa(Diff(times, i), 0)

\* A divisor clipped from below, max(TimeDelta_s, 1).
DivisorMax(td) ==
  IF td.t = "float" /\ td.n < 1 * TicksPerSecond THEN Num(1 * TicksPerSecond) ELSE td

\* The divisor TimeDelta_s.replace(0, 1), in ticks.
Divisor(td) == Replace(td, 0, 1 * TicksPerSecond)

\* Series / Series on one row: speed difference (1e-6 m/s) over a time in
\* ticks, as an exact fraction of 1e-6 m/s^2; missing if either is missing.
Divide(ds, den) ==
  IF ds.t # "float" \/ den.t # "float" THEN RatNaN
  ELSE Rat(ds.n * TicksPerSecond, den.n)

\* Speed_mps.diff() / TimeDelta_s.replace(0, 1) at row i.
Acceleration(speeds, deltas, i) == Divide(Diff(speeds, i), Divisor(deltas[i]))

\* A mask that compares the names ignoring letter case.
NameMatchesIgnoreCase(cell, selected) ==
  cell.t = "str" /\ selected.t = "str" /\ Lower(cell.s) = Lower(selected.s)

\* The boolean mask df['VesselName'] == selected_vessel at one row.
NameMatches(cell, selected) == cell.t = "str" /\ selected.t = "str" /\ cell.s = selected.s

\* df[mask].copy(): the selected rows in frame order, each keeping its
\* index label.
RECURSIVE MaskRows(_, _, _)
MaskRows(frame, selected, i) ==
  IF i > Len(frame) THEN <<>>
  ELSE (IF NameMatches(frame[i].VesselName, selected)
        THEN << [idx |-> i, VesselName |-> frame[i].VesselName,
                 BaseDateTime |-> frame[i].BaseDateTime,
                 SOG |-> frame[i].SOG, Length |-> frame[i].Length] >>
        ELSE <<>>) \o MaskRows(frame, selected, i + 1)

RECURSIVE SelectRows(_, _)
SelectRows(rows, present) ==
  IF rows = <<>> THEN <<>>
  ELSE (IF (Head(rows).BaseDateTime.t # "nan") = present THEN <<Head(rows)>> ELSE <<>>)
       \o SelectRows(Tail(rows), present)

\* Order of the sort key: the raw BaseDateTime strings as Python orders them.
KeyLeq(a, b) == StrLeq(a.BaseDateTime.s, b.BaseDateTime.s)

\* na_position='first'.
NaPositionFirst(sorted, missing) == missing \o sorted

\* A sort that drops the rows with a missing key.
NaPositionDrop(sorted, missing) == sorted

\* na_position='last': rows with a missing key follow the sorted ones.
NaPosition(sorted, missing) == sorted \o missing

\* DataFrame.sort_values("BaseDateTime") with the default kind='quicksort',
\* which is not stable: every arrangement of the rows with a key that is
\* ordered by the key is a possible result; the rows with a missing key keep
\* their order and come last.
SortValues(rows) ==
  LET present == SelectRows(rows, TRUE)
      missing == SelectRows(rows, FALSE)
      n == Len(present)
  IN { NaPosition([i \in 1..n |-> present[p[i]]], missing) :
         p \in { q \in Permutations(1..n) :
                   \A i \in 1..n : \A j \in 1..n :
                      i < j => KeyLeq(present[q[i]], present[q[j]]) } }

\* long_vessels['VesselName'].dropna().unique()
LongVesselNames(frame) ==
  { frame[i].VesselName.s : i \in { k \in 1..Len(frame) :
        /\ frame[k].Length.t = "float" /\ frame[k].Length.n > 200
        /\ frame[k].VesselName.t = "str" } }

\* sorted(names): ascending in Python's string order.
RECURSIVE Sorted(_)
Sorted(S) ==
  IF S = {} THEN <<>>
  ELSE LET m == CHOOSE x \in S : \A y \in S : StrLeq(x, y)
       IN <<m>> \o Sorted(S \ {m})

\* ------------------------------------------------------------ the inputs

T9 == DatePrefix \o <<"9", ":", "0", "0", ":", "0", "0", ".", "0">>

T10 == DatePrefix \o <<"1", "0", ":", "0", "0", ":", "0", "0", ".", "0">>

T10h == DatePrefix \o <<"1", "0", ":", "0", "0", ":", "0", "0", ".", "5">>

\* BaseDateTime texts: missing, unparseable (ordered before and after the
\* digits), and three times of the day.
TimeTexts == { <<"N", "/", "A">>, <<"#">>, <<"b", "a", "d">>, T9, T10, T10h }

SogTexts == { <<>>, <<"1", "0">>, <<"2", "0">> }

NameAB == <<"A", " ", "B">>

\* Reports of one long vessel; timestamp and speed vary.
TrackRows ==
  [VesselName : {NameAB}, BaseDateTime : TimeTexts, SOG : SogTexts,
   Length : {<<"2", "5", "0">>}]

\* Reports of several vessels; name and length vary.
FleetRows ==
  [VesselName : {NameAB, <<"a", " ", "b">>, <<"C">>, <<>>},
   BaseDateTime : {T9},
   SOG : {<<"1", "0">>},
   Length : {<<"2", "5", "0">>, <<"1", "5", "0">>, <<"#">>}]

\* Reports of two long vessels; the speed is a number, missing or not a
\* number.
SpeedRows ==
  [VesselName : {NameAB, <<"C">>},
   BaseDateTime : {T9},
   SOG : {<<>>, <<"1", "0">>, <<"#">>},
   Length : {<<"2", "5", "0">>}]

TablesOver(rows) == UNION { [1..n -> rows] : n \in 0..MaxRows }

\* The CSV files a run may find in the archive.
CsvFiles == TablesOver(TrackRows) \cup TablesOver(FleetRows) \cup TablesOver(SpeedRows)

\* ------------------------------------------------------------- the state

VARIABLES
  pc,              \* the step the script is about to run, or how it ended
  ui,              \* the elements the run has put on the page, in order
  httpGets,        \* requests.get calls made by the run
  zip_file,        \* what zip_path holds: "absent", "badzip", "nocsv", "csv"
  extracted,       \* whether the CSV member was extracted to EXTRACT_PATH
  df,              \* the loaded frame
  vessel_names,    \* the options of the select box
  selected_vessel, \* the value of the select box
  vessel_df,       \* the frame of the selected vessel
  output_file,     \* the name of the exported CSV file, None until written
  raised           \* the uncaught exception that ended the run, or "none"

vars == <<pc, ui, httpGets, zip_file, extracted, df, vessel_names,
          selected_vessel, vessel_df, output_file, raised>>

\* Lines 14-17: a fresh EXTRACT_PATH, the page configuration and the title.
Init ==
  /\ pc = "download"
  /\ ui = <<"title">>
  /\ httpGets = 0
  /\ zip_file = "absent"
  /\ extracted = FALSE
  /\ df = <<>>
  /\ vessel_names = <<>>
  /\ selected_vessel = None
  /\ vessel_df = <<>>
  /\ output_file = None
  /\ raised = "none"

\* A stop that does not end the run.
StStopIgnored(next) == next

\* st.stop(): the run ends here; the statement that follows is not reached.
StStop(next) == "stopped"

\* download_and_extract_zip(), called at line 64.  EXTRACT_PATH is a fresh
\* directory, so zip_path does not exist and the download is attempted.
DownloadAndExtractZip ==
  /\ pc = "download"
  /\ httpGets' = httpGets + 1
  /\ \/ \* requests.get raises a RequestException
        /\ ui' = ui \o <<"info: Downloading AIS ZIP file...", "error: Download failed">>
        /\ pc' = StStop("load")
        /\ UNCHANGED <<zip_file, extracted>>
     \/ \* the response is not a ZIP archive
        /\ zip_file' = "badzip"
        /\ ui' = ui \o <<"info: Downloading AIS ZIP file...", "success: Download complete.",
                         "error: Invalid ZIP file">>
        /\ pc' = StStop("load")
        /\ UNCHANGED extracted
     \/ \* the archive has no member ending in .csv
        /\ zip_file' = "nocsv"
        /\ ui' = ui \o <<"info: Downloading AIS ZIP file...", "success: Download complete.",
                         "error: No CSV file found in ZIP archive.">>
        /\ pc' = StStop("load")
        /\ UNCHANGED extracted
     \/ \* the first .csv member is extracted
        /\ zip_file' = "csv"
        /\ extracted' = TRUE
        /\ ui' = ui \o <<"info: Downloading AIS ZIP file...", "success: Download complete.">>
        /\ pc' = "load"
  /\ UNCHANGED <<df, vessel_names, selected_vessel, vessel_df, output_file, raised>>

\* load_data(csv_path), called at line 65.
LoadData ==
  /\ pc = "load"
  /\ \/ \* pd.read_csv raises
        /\ ui' = ui \o <<"error: Failed to load CSV file">>
        /\ pc' = StStop("filter")
        /\ UNCHANGED df
     \/ \E tbl \in CsvFiles :
          /\ df' = ReadCsv(tbl)
          /\ pc' = "filter"
          /\ UNCHANGED ui
  /\ UNCHANGED <<httpGets, zip_file, extracted, vessel_names, selected_vessel,
                 vessel_df, output_file, raised>>

\* Step 3, lines 68-70.
FilterLongVessels ==
  /\ pc = "filter"
  /\ LET numeric == [i \in 1..Len(df) |-> [df[i] EXCEPT !.Length = ToNumeric(@)]]
     IN /\ df' = numeric
        /\ vessel_names' = Sorted(LongVesselNames(numeric))
  /\ pc' = "select"
  /\ UNCHANGED <<ui, httpGets, zip_file, extracted, selected_vessel, vessel_df,
                 output_file, raised>>

\* Line 72: the select box returns one of its options, None if it has none.
SelectVessel ==
  /\ pc = "select"
  /\ IF vessel_names = <<>>
     THEN selected_vessel' = None
     ELSE \E k \in 1..Len(vessel_names) : selected_vessel' = Str(vessel_names[k])
  /\ ui' = ui \o <<"selectbox">>
  /\ pc' = "isolate"
  /\ UNCHANGED <<httpGets, zip_file, extracted, df, vessel_names, vessel_df,
                 output_file, raised>>

\* Step 4, lines 75-76.
IsolateVessel ==
  /\ pc = "isolate"
  /\ vessel_df' \in SortValues(MaskRows(df, selected_vessel, 1))
  /\ pc' = "transform"
  /\ UNCHANGED <<ui, httpGets, zip_file, extracted, df, vessel_names,
                 selected_vessel, output_file, raised>>

\* Lines 79-80: parse the timestamps and format them.
WithTimes(rows) ==
  [i \in 1..Len(rows) |->
     [idx |-> rows[i].idx, VesselName |-> rows[i].VesselName,
      BaseDateTime |-> ToDatetime(rows[i].BaseDateTime),
      SOG |-> rows[i].SOG, Length |-> rows[i].Length,
      FormattedTime |-> Strftime(ToDatetime(rows[i].BaseDateTime))]]

\* Lines 81-84 on the frame of lines 79-80.
WithKinematics(rows) ==
  LET times  == [i \in 1..Len(rows) |-> rows[i].BaseDateTime]
      speeds == [i \in 1..Len(rows) |-> SpeedMps(rows[i].SOG)]
      deltas == [i \in 1..Len(rows) |-> TimeDelta(times, i)]
  IN [i \in 1..Len(rows) |->
        [idx |-> rows[i].idx,
         VesselName |-> Str(Lower(rows[i].VesselName.s)),
         BaseDateTime |-> rows[i].BaseDateTime,
         SOG |-> rows[i].SOG, Length |-> rows[i].Length,
         FormattedTime |-> rows[i].FormattedTime,
         Speed_mps |-> speeds[i],
         TimeDelta_s |-> deltas[i],
         Acceleration_mps2 |-> Acceleration(speeds, deltas, i)]]

\* Step 5, lines 79-84.
Transform ==
  /\ pc = "transform"
  /\ \/ \* line 81: .str on a float64 column raises AttributeError
        /\ ~IsObjectColumn(df, "VesselName")
        /\ vessel_df' = WithTimes(vessel_df)
        /\ raised' = "AttributeError:81"
        /\ pc' = "raised"
     \/ \* line 82: str * float raises TypeError
        /\ IsObjectColumn(df, "VesselName")
        /\ \E i \in 1..Len(vessel_df) : vessel_df[i].SOG.t = "str"
        /\ vessel_df' = WithTimes(vessel_df)
        /\ raised' = "TypeError:82"
        /\ pc' = "raised"
     \/ /\ IsObjectColumn(df, "VesselName")
        /\ \A i \in 1..Len(vessel_df) : vessel_df[i].SOG.t # "str"
        /\ vessel_df' = WithKinematics(WithTimes(vessel_df))
        /\ pc' = "save"
        /\ UNCHANGED raised
  /\ UNCHANGED <<ui, httpGets, zip_file, extracted, df, vessel_names,
                 selected_vessel, output_file>>

\* Step 6, lines 87-90.  st.success() is called without its required body
\* argument and raises TypeError, so lines 92-128 (the map, the metadata,
\* the profile and the data table) are never reached.
SaveVesselData ==
  /\ pc = "save"
  /\ \/ \* line 87: None has no .lower
        /\ selected_vessel.t # "str"
        /\ raised' = "AttributeError:87"
        /\ UNCHANGED output_file
     \/ /\ selected_vessel.t = "str"
        /\ output_file' = Str(ReplaceSpace(Lower(selected_vessel.s))
                              \o <<"_", "d", "a", "t", "a", ".", "c", "s", "v">>)
        /\ raised' = "TypeError:90"
  /\ pc' = "raised"
  /\ UNCHANGED <<ui, httpGets, zip_file, extracted, df, vessel_names,
                 selected_vessel, vessel_df>>

Next ==
  \/ DownloadAndExtractZip
  \/ LoadData
  \/ FilterLongVessels
  \/ SelectVessel
  \/ IsolateVessel
  \/ Transform
  \/ SaveVesselData

Spec == Init /\ [][Next]_vars

\* ------------------------------------------------------------ properties

\* Step 4 has run: vessel_df holds the selected rows.
Isolated == pc \in {"transform", "save", "raised"}

\* Step 5 has run to its end: vessel_df holds the derived columns.
Processed == pc = "save" \/ raised \in {"AttributeError:87", "TypeError:90"}

Rows == 1..Len(vessel_df)

Max(a, b) == IF a >= b THEN a ELSE b

\* The raw BaseDateTime of the i-th row of vessel_df, as loaded.
RawTime(i) == df[vessel_df[i].idx].BaseDateTime

ErrorMessages ==
  {"error: Download failed", "error: Invalid ZIP file",
   "error: No CSV file found in ZIP archive.", "error: Failed to load CSV file"}

\* C1: the processed track is in non-decreasing order of parsed timestamp,
\* and rows with equal parsed timestamps, or both with an invalid one, keep
\* their input order.
C1_SortedByParsedTimeStable ==
  Processed =>
    \A i \in Rows : \A j \in Rows :
      i < j =>
        LET a == vessel_df[i].BaseDateTime
            b == vessel_df[j].BaseDateTime
        IN /\ (a.t = "float" /\ b.t = "float") => a.n <= b.n
           /\ a = b => vessel_df[i].idx < vessel_df[j].idx

\* C2 as stated: from the second row on, the acceleration is the speed
\* difference divided by max(TimeDelta_s, 1).
C2_AccelerationMaxDivisor ==
  Processed =>
    \A i \in Rows :
      (i >= 2 /\ vessel_df[i].Speed_mps.t = "float" /\ vessel_df[i - 1].Speed_mps.t = "float") =>
        vessel_df[i].Acceleration_mps2 =
              Rat((vessel_df[i].Speed_mps.n - vessel_df[i - 1].Speed_mps.n) * TicksPerSecond,
                  Max(vessel_df[i].TimeDelta_s.n, 1 * TicksPerSecond))

\* C2 amended: from the second row on, the acceleration is the speed
\* difference divided by TimeDelta_s where that is not 0 (negative and
\* sub-second values included) and by 1 where it is 0; it is missing when
\* one of the two speeds is missing.  TimeDelta_s is never missing.
C2_AccelerationZeroDivisor ==
  Processed =>
    \A i \in Rows :
      i >= 2 =>
        LET td == vessel_df[i].TimeDelta_s
            d  == IF td.n = 0 THEN 1 * TicksPerSecond ELSE td.n
        IN /\ td.t = "float"
           /\ IF vessel_df[i].Speed_mps.t = "float" /\ vessel_df[i - 1].Speed_mps.t = "float"
              THEN vessel_df[i].Acceleration_mps2 =
                         Rat((vessel_df[i].Speed_mps.n - vessel_df[i - 1].Speed_mps.n)
                               * TicksPerSecond, d)
              ELSE vessel_df[i].Acceleration_mps2.t = "nan"

\* A row half a second after its predecessor, with a different speed.
C2_Witness ==
  /\ Processed
  /\ \E i \in Rows :
       /\ i >= 2
       /\ vessel_df[i].TimeDelta_s.n = 5
       /\ vessel_df[i].Acceleration_mps2.t = "float"
       /\ vessel_df[i].Acceleration_mps2.n # 0

\* C3 as stated: the first row has TimeDelta_s 0 and an acceleration equal
\* to its own Speed_mps.
C3_FirstRowAccelerationIsSpeed ==
  (Processed /\ Len(vessel_df) >= 1) =>
    /\ vessel_df[1].TimeDelta_s = Num(0)
    /\ vessel_df[1].Speed_mps.t = "float" =>
         vessel_df[1].Acceleration_mps2 = Rat(vessel_df[1].Speed_mps.n, 1)

\* C3 amended: the first row has TimeDelta_s 0 and a missing acceleration,
\* whatever its speed.
C3_FirstRowAccelerationMissing ==
  (Processed /\ Len(vessel_df) >= 1) =>
    /\ vessel_df[1].TimeDelta_s = Num(0)
    /\ vessel_df[1].Acceleration_mps2.t = "nan"

\* A single-row track with a numeric speed and a valid time.
C3_Witness ==
  /\ Processed
  /\ Len(vessel_df) = 1
  /\ vessel_df[1].Speed_mps.t = "float"
  /\ vessel_df[1].Speed_mps.n > 0
  /\ vessel_df[1].BaseDateTime.t = "float"

\* C4: a row with an unparseable timestamp does not make the run raise in
\* Step 5, and its FormattedTime, TimeDelta_s and Acceleration_mps2 are
\* missing.
C4_InvalidTimeGivesMarkers ==
  Processed =>
    \A i \in Rows :
      vessel_df[i].BaseDateTime.t = "nan" =>
        /\ vessel_df[i].FormattedTime.t = "nan"
        /\ vessel_df[i].TimeDelta_s.t = "nan"
        /\ vessel_df[i].Acceleration_mps2.t = "nan"

C6_BadSpeedNeverRaises ==
  /\ raised # "TypeError:82"
  /\ Processed =>
       \A i \in Rows :
         /\ vessel_df[i].SOG.t = "float" => vessel_df[i].Speed_mps = Num(vessel_df[i].SOG.n * 514444)
         /\ vessel_df[i].SOG.t # "float" => vessel_df[i].Speed_mps.t = "nan"

\* C7: vessel_df has as many rows as the loaded table has rows selected for
\* the vessel, each of them once, after the sort and after the transforms.
C7_RowCountPreserved ==
  Isolated =>
    LET chosen == { i \in 1..Len(df) : df[i].VesselName.t = "str" /\ df[i].VesselName = selected_vessel }
    IN /\ Len(vessel_df) = Cardinality(chosen)
       /\ \A i \in Rows : \A j \in Rows : i # j => vessel_df[i].idx # vessel_df[j].idx

\* A processed track of several rows, one with a missing timestamp, one with
\* an unparseable one and one with a missing speed.
C7_Witness ==
  /\ Processed
  /\ Len(vessel_df) >= 2
  /\ \E i \in Rows : RawTime(i).t = "nan"
  /\ \E i \in Rows : RawTime(i).t = "str" /\ vessel_df[i].BaseDateTime.t = "nan"
  /\ \E i \in Rows : vessel_df[i].Speed_mps.t = "nan"

\* C8: a run in which the archive was loaded and a vessel of the list was
\* selected ends without an exception, with the track map and the metadata
\* on the page.
C8_ReachesMapAndMetadata ==
  (pc \in {"stopped", "raised"} /\ selected_vessel.t = "str") =>
    /\ raised = "none"
    /\ \E k \in 1..Len(ui) : ui[k] = "subheader: Vessel Track Map"
    /\ \E k \in 1..Len(ui) : ui[k] = "subheader: Vessel Metadata"

\* C9: a failed download, an invalid archive, an archive without a CSV and
\* a failed load each put an error message on the page and end the run:
\* the message is the last element of the page, no frame, select box, track
\* or export exists, and a single request was made.
C9_FailureHalts ==
  /\ (zip_file \in {"badzip", "nocsv"} \/ (httpGets = 1 /\ zip_file = "absent"))
       => \E k \in 1..Len(ui) : ui[k] \in ErrorMessages
  /\ (\E k \in 1..Len(ui) : ui[k] \in ErrorMessages) =>
       /\ pc = "stopped"
       /\ ui[Len(ui)] \in ErrorMessages
       /\ \A k \in 1..Len(ui) : ui[k] # "selectbox"
       /\ df = <<>> /\ vessel_names = <<>> /\ vessel_df = <<>>
       /\ selected_vessel = None /\ output_file = None
       /\ raised = "none"
       /\ httpGets = 1

\* A run stopped by a failed load of the extracted CSV.
C9_Witness ==
  /\ pc = "stopped"
  /\ extracted
  /\ ui[Len(ui)] = "error: Failed to load CSV file"

\* C10 as stated: the rows processed are those whose VesselName equals the
\* selected name ignoring letter case.
C10_FilterIgnoresCase ==
  (Isolated /\ selected_vessel.t = "str") =>
    { vessel_df[i].idx : i \in Rows } =
      { i \in 1..Len(df) : df[i].VesselName.t = "str"
                           /\ Lower(df[i].VesselName.s) = Lower(selected_vessel.s) }

\* C10 amended: the rows processed are those whose VesselName is exactly the
\* selected name, letter case included; the names of the output are the
\* lower-cased names of those rows.
C10_FilterIsExact ==
  (Isolated /\ selected_vessel.t = "str") =>
    /\ { vessel_df[i].idx : i \in Rows } =
         { i \in 1..Len(df) : df[i].VesselName = selected_vessel }
    /\ Processed =>
         \A i \in Rows : vessel_df[i].VesselName = Str(Lower(selected_vessel.s))

\* A processed track while the table holds a row whose name differs from the
\* selected one in letter case only.
C10_Witness ==
  /\ Processed
  /\ selected_vessel.t = "str"
  /\ Len(vessel_df) >= 1
  /\ \E i \in 1..Len(df) :
       /\ df[i].VesselName.t = "str"
       /\ df[i].VesselName # selected_vessel
       /\ Lower(df[i].VesselName.s) = Lower(selected_vessel.s)

====
